---- MODULE Spec2Model ----
(***************************************************************************)
(* Model of the terminal core of script-kit-gpui as the source has it:    *)
(* TerminalHandle (src/terminal/alacritty.rs) and PtyManager               *)
(* (src/terminal/pty.rs).  A TerminalHandle holds its dimensions and the   *)
(* configured scrollback capacity, a PtyManager holds its dimensions.      *)
(* The two objects do not reference each other.  ThemeAdapter              *)
(* (src/terminal/theme_adapter.rs) is a value of five colours.             *)
(* ensure_kit_setup and migrate_from_kenv (src/setup.rs) act on the file   *)
(* system, modelled as a map from paths to what is found there.            *)
(* scan_applications (src/app_launcher.rs) is called from several threads  *)
(* and fills a static OnceLock. load_theme (src/theme.rs) reads the theme  *)
(* file and asks the system for its appearance. A JsonlReader              *)
(* (src/protocol.rs) reads messages from a stream, a line per call. A      *)
(* PathPrompt (src/prompts/path.rs) browses directories and answers keys.  *)
(***************************************************************************)
EXTENDS Integers, Sequences, FiniteSets, TLC

\* ------------------------------------------------------------------ bounds

\* Largest column / row count passed to a constructor or to resize (u16 in
\* the source; no arithmetic is done on it, so its width does not matter).
MaxDim == 2

\* Largest explicit scrollback capacity passed to with_scrollback.
MaxScrollback == 1

\* ------------------------------------------------------- program constants

DefaultCols == 80
DefaultRows == 24
DefaultScrollback == 10000

\* ------------------------------------------------------------------ inputs

\* Arguments of resize: every u16 of the bounded range, zero included.
Dims == 0..MaxDim

\* Dimensions a terminal or PTY is constructed with.
InitDims == 1..MaxDim

\* Bytes are written by name.
CancelBytes == {"CAN", "SUB"}

\* ESC [ 3 1 m: select graphic rendition, red foreground.
SgrRed == <<"ESC", "[", "3", "1", "m">>

\* ESC [ ! p: soft terminal reset (DECSTR).
SoftReset == <<"ESC", "[", "!", "p">>

\* Unfinished sequences, one per parser state: Ground, Escape, CSI entry,
\* CSI parameter, OSC string, DCS passthrough.
OpenPrefixes ==
  { <<>>, <<"ESC">>, <<"ESC", "[">>, <<"ESC", "[", "3">>,
    <<"ESC", "]", "0">>, <<"ESC", "P">> }

\* Printable text followed by CR LF.
TextLine == <<"H", "i", "CR", "LF">>

\* The byte streams fed to process(), each delivered in any chunking.
Streams ==
  {SgrRed, SoftReset, <<"LF">>, TextLine}
    \cup { p \o <<c>> : p \in OpenPrefixes, c \in CancelBytes }
    \cup { <<"ESC", "[", c, "!", "p">> : c \in CancelBytes }

IsPrefix(p, s) == Len(p) <= Len(s) /\ SubSeq(s, 1, Len(p)) = p

\* data occurs in s as a contiguous run of bytes.
Contains(s, data) ==
  \E i \in 0..(Len(s) - Len(data)) : SubSeq(s, i + 1, i + Len(data)) = data

\* Non-empty chunks that continue the stream fed so far.
Chunks(fed) ==
  UNION { { SubSeq(s, Len(fed) + 1, k) : k \in (Len(fed) + 1)..Len(s) } :
            s \in {x \in Streams : IsPrefix(fed, x)} }

\* --------------------------------------------------------- TerminalHandle

TerminalHandle_with_scrollback(cols, rows, scrollback_lines) ==
  [size |-> <<cols, rows>>, scrollback_lines |-> scrollback_lines]

TerminalHandle_new(cols, rows) ==
  TerminalHandle_with_scrollback(cols, rows, DefaultScrollback)

TerminalHandle_default == TerminalHandle_new(DefaultCols, DefaultRows)

TerminalHandle_size(t) == t.size

\* Faulty variant of process: a soft reset is acted on (the handle returns to
\* its defaults) only when the whole sequence arrives inside one call, the
\* parser state not being carried from one call to the next.
process_no_carry(t, data) ==
  IF Contains(data, SoftReset) THEN TerminalHandle_default ELSE t

\* Faulty variant of process: a soft reset is acted on although a cancel byte
\* interrupts it, CAN and SUB being skipped instead of aborting the sequence.
process_cancel_skipped(t, data) ==
  IF Contains(SelectSeq(data, LAMBDA b : b \notin CancelBytes), SoftReset)
  THEN TerminalHandle_default
  ELSE t

\* process(&mut self, _data): the body is empty, the handle is left as it is.
TerminalHandle_process(t, data) == t

\* Faulty variant of resize: the rows the grid had before the call are counted
\* into the scrollback on every call, also when the dimensions stay the same.
resize_grows_scrollback(t, cols, rows) ==
  [size |-> <<cols, rows>>,
   scrollback_lines |-> t.scrollback_lines + t.size[2]]

\* resize(&mut self, cols, rows): stores the pair, returns nothing.
TerminalHandle_resize(t, cols, rows) == [t EXCEPT !.size = <<cols, rows>>]

\* -------------------------------------------------------------- PtyManager

PtyManager_with_size(cols, rows) == [size |-> <<cols, rows>>]

PtyManager_new == PtyManager_with_size(DefaultCols, DefaultRows)

PtyManager_size(p) == p.size

\* resize(&mut self, cols, rows): stores the pair and returns Ok(()).
PtyManager_resize(p, cols, rows) ==
  [result |-> "Ok", pty |-> [p EXCEPT !.size = <<cols, rows>>]]

\* ------------------------------------------------------------ ThemeAdapter

\* Colours are 0xRRGGBB values (u32; no arithmetic is done on them).
DarkBackground == 1973790    \* 0x1e1e1e
DarkForeground == 13948116   \* 0xd4d4d4
White == 16777215            \* 0xffffff
LightForeground == 3355443   \* 0x333333
Black == 0                   \* 0x000000
SelectionBlue == 2510712     \* 0x264f78

\* Colours passed to new() and to with_selection().
NewColours == {Black, White}
SelectionColours == {SelectionBlue, White}

\* Faulty variant of new: the selection foreground is taken from the
\* foreground instead of the background.
new_selection_from_foreground(background, foreground, cursor) ==
  [background |-> background, foreground |-> foreground, cursor |-> cursor,
   selection_background |-> cursor, selection_foreground |-> foreground]

ThemeAdapter_new(background, foreground, cursor) ==
  [background |-> background, foreground |-> foreground, cursor |-> cursor,
   selection_background |-> cursor, selection_foreground |-> background]

ThemeAdapter_dark_default ==
  ThemeAdapter_new(DarkBackground, DarkForeground, White)

ThemeAdapter_light_default ==
  ThemeAdapter_new(White, LightForeground, Black)

ThemeAdapter_default == ThemeAdapter_dark_default

\* with_selection(mut self, background, foreground) -> Self: the value moved
\* in is returned with its two selection colours replaced.
ThemeAdapter_with_selection(self, background, foreground) ==
  [self EXCEPT !.selection_background = background,
               !.selection_foreground = foreground]

\* The two places an adapter value can live in.
Places == {"a", "b"}

\* Faulty variant of clone: the clone shares the place of the original.
clone_shares_place(places, from) == [place |-> from, places |-> places]

\* #[derive(Clone)]: the clone is a copy of the five colours in a place of
\* its own.
ThemeAdapter_clone(places, from) ==
  LET to == CHOOSE q \in Places : q # from IN
    [place |-> to, places |-> [places EXCEPT ![to] = places[from]]]

\* ------------------------------------------------------------- file system

\* A path is the sequence of its components below the home directory (or
\* below the system's temporary directory, for the fallback kit path).
Parent(path) == SubSeq(path, 1, Len(path) - 1)

SK == <<"sk">>                    \* ~/.sk
KIT == <<"sk", "kit">>            \* ~/.sk/kit
KENV == <<"kenv">>                \* ~/.kenv
TMP_KIT == <<"tmp", "script-kit">>   \* temp_dir()/script-kit

\* What is found at a path: nothing, a directory, a symbolic link to
\* ~/.sk/kit, or a regular file, given by its content.
NoFile == {"absent", "dir", "symlink"}
IsFile(node) == node \notin NoFile

\* Contents of the files the setup writes.
EMBEDDED_SDK == "sdk:embedded"
EMBEDDED_CONFIG_TEMPLATE == "config:template"
EMBEDDED_THEME_EXAMPLE == "theme:example"
GITIGNORE_CONTENT == "gitignore:managed"
HELLO_SCRIPT == "sample:hello-world"
SAMPLE_SCRIPTLET == "sample:getting-started"

\* tsconfig.json, by what serde_json makes of it:
\*   json:mapped       the object the setup writes when it starts from {}
\*   json:user         an object of the user's without the kit path mapping
\*   json:user+mapped  the user's object with the kit path mapping merged in
\*   json:invalid      text that does not parse (read as {}), or null
\*   json:not-object   JSON whose root, compilerOptions or paths is an array
\*                     or a scalar
TSCONFIG_FROM_EMPTY == "json:mapped"

\* The directories ensure_kit_setup requires, relative to the kit root.
RequiredDirs ==
  << <<"main", "scripts">>, <<"main", "scriptlets">>, <<"sdk">>, <<"db">>,
     <<"logs">>, <<"cache", "app-icons">> >>

\* Files of the kit root, relative to it.
SDK_FILE == <<"sdk", "kit-sdk.ts">>
CONFIG_TS == <<"config.ts">>
THEME_JSON == <<"theme.json">>
TSCONFIG_JSON == <<"tsconfig.json">>
GITIGNORE == <<".gitignore">>
HELLO_WORLD_TS == <<"main", "scripts", "hello-world.ts">>
GETTING_STARTED_MD == <<"main", "scriptlets", "getting-started.md">>

\* What migrate_from_kenv moves, relative to ~/.kenv and to ~/.sk/kit.
ConfigFiles ==
  << <<"config.ts">>, <<"theme.json">>, <<"tsconfig.json">>, <<".gitignore">> >>
DataDirs == << <<"logs">>, <<"cache">>, <<"db">>, <<"sdk">> >>
DataFiles ==
  << <<"frecency.json">>, <<"store.json">>, <<"server.json">>,
     <<"agent-token">>, <<"notes.db">>, <<"ai-chats.db">>,
     <<"clipboard-history.db">> >>

\* Entries a user may have in ~/.kenv/scripts and ~/.kenv/scriptlets, and a
\* file of ~/.kenv that the migration does not know.
ScriptEntries == {"a.ts"}
ScriptletEntries == {"b.md"}
UNKNOWN_FILE == <<"notes.txt">>

Range(seq) == { seq[i] : i \in 1..Len(seq) }

\* Every path below a kit root that the model follows.
KitRel ==
  {<<>>, <<"main">>, <<"cache">>}
    \cup Range(RequiredDirs) \cup Range(ConfigFiles) \cup Range(DataDirs)
    \cup Range(DataFiles)
    \cup {SDK_FILE, HELLO_WORLD_TS, GETTING_STARTED_MD}
    \cup { <<"main", "scripts", e>> : e \in ScriptEntries }
    \cup { <<"main", "scriptlets", e>> : e \in ScriptletEntries }

KenvRel ==
  {<<>>, <<"scripts">>, <<"scriptlets">>, UNKNOWN_FILE}
    \cup Range(ConfigFiles) \cup Range(DataDirs) \cup Range(DataFiles)
    \cup { <<"scripts", e>> : e \in ScriptEntries }
    \cup { <<"scriptlets", e>> : e \in ScriptletEntries }

Paths ==
  {SK, <<"tmp">>}
    \cup { KIT \o rel : rel \in KitRel }
    \cup { TMP_KIT \o rel : rel \in KitRel }
    \cup { KENV \o rel : rel \in KenvRel }

\* Path::exists(): something is there; a symbolic link is followed, and the
\* only link of the model points to ~/.sk/kit.
Exists(f, path) ==
  IF f[path] = "symlink" THEN f[KIT] # "absent" ELSE f[path] # "absent"

IsDir(f, path) ==
  IF f[path] = "symlink" THEN f[KIT] = "dir" ELSE f[path] = "dir"

\* The model's paths at or below path.
Below(path) ==
  { q \in Paths : Len(q) >= Len(path) /\ SubSeq(q, 1, Len(path)) = path }

\* fs::create_dir_all(path): Ok when the directory is there already; an error
\* when a component is a file or when nothing can be written; otherwise the
\* missing directories are made, the outermost first.
RECURSIVE create_dir_all(_, _, _)
create_dir_all(f, readonly, path) ==
  IF path \notin Paths \/ f[path] = "dir"
  THEN [ok |-> TRUE, fs |-> f, made |-> {}]
  ELSE IF f[path] # "absent"
  THEN [ok |-> FALSE, fs |-> f, made |-> {}]
  ELSE LET up == create_dir_all(f, readonly, Parent(path)) IN
         IF ~up.ok \/ readonly
         THEN [ok |-> FALSE, fs |-> f, made |-> {}]
         ELSE [ok |-> TRUE, fs |-> [up.fs EXCEPT ![path] = "dir"],
               made |-> up.made \cup {path}]

\* fs::write(path, contents): creates the file or replaces its content; an
\* error when nothing can be written, when the parent is no directory or
\* when a directory is in the way.
fs_write(f, readonly, path, contents) ==
  IF readonly \/ f[Parent(path)] # "dir" \/ f[path] \in {"dir", "symlink"}
  THEN [ok |-> FALSE, fs |-> f]
  ELSE [ok |-> TRUE, fs |-> [f EXCEPT ![path] = contents]]

\* fs::read_to_string(path)
fs_read_to_string(f, path) ==
  IF IsFile(f[path]) THEN [ok |-> TRUE, contents |-> f[path]]
  ELSE [ok |-> FALSE, contents |-> ""]

\* -------------------------------------------------------------- kit setup

\* The environment of a call: whether dirs::home_dir() is Some, whether the
\* file system refuses every write, whether a bun executable is found, and
\* whether the build is for Unix. SK_PATH is not set.
get_kit_path(e) == IF e.home THEN KIT ELSE TMP_KIT

bun_is_discoverable(e) == e.bun

\* A run in progress: the file system, the warnings pushed so far, the paths
\* created or written so far, and whether the run has panicked.
Begin(f) == [fs |-> f, warnings |-> <<>>, writes |-> {}, panicked |-> FALSE]

Warn(st, label) == [st EXCEPT !.warnings = Append(@, label)]

ensure_dir(st, e, path) ==
  IF Exists(st.fs, path) THEN st
  ELSE LET r == create_dir_all(st.fs, e.readonly, path) IN
         IF r.ok
         THEN [st EXCEPT !.fs = r.fs, !.writes = @ \cup r.made]
         ELSE Warn(st, <<"Failed to create directory", path>>)

\* The two steps the writers share: make the parent directory, write.
WriteUnderParent(st, e, path, contents) ==
  LET r == create_dir_all(st.fs, e.readonly, Parent(path)) IN
    IF ~r.ok THEN Warn(st, <<"Failed to create parent dir for", path>>)
    ELSE LET w == fs_write(r.fs, e.readonly, path, contents) IN
           IF w.ok
           THEN [st EXCEPT !.fs = w.fs,
                           !.writes = @ \cup r.made \cup {path}]
           ELSE Warn([st EXCEPT !.fs = r.fs, !.writes = @ \cup r.made],
                     <<"Failed to write", path>>)

write_overwrites_existing(st, e, path, contents) ==
  IF fs_read_to_string(st.fs, path) = [ok |-> TRUE, contents |-> contents]
  THEN st
  ELSE WriteUnderParent(st, e, path, contents)

write_string_if_missing(st, e, path, contents) ==
  IF Exists(st.fs, path) THEN st
  ELSE WriteUnderParent(st, e, path, contents)

write_string_if_changed(st, e, path, contents) ==
  IF fs_read_to_string(st.fs, path) = [ok |-> TRUE, contents |-> contents]
  THEN st
  ELSE WriteUnderParent(st, e, path, contents)

\* serde_json::from_str(content).unwrap_or_else(|_| json!({})), by class.
tsconfig_parse(content) ==
  IF content \in {"json:mapped", "json:user", "json:user+mapped",
                  "json:not-object"}
  THEN content ELSE "json:empty"

\* The value after the kit path mapping is set, serialised.
tsconfig_with_mapping(config) ==
  CASE config = "json:empty" -> TSCONFIG_FROM_EMPTY
    [] config = "json:user" -> "json:user+mapped"
    [] OTHER -> config

tsconfig_always_written(st, e, path) ==
  LET read == fs_read_to_string(st.fs, path)
      config == IF Exists(st.fs, path) /\ read.ok
                THEN tsconfig_parse(read.contents) ELSE "json:empty"
  IN
    IF config = "json:not-object" THEN [st EXCEPT !.panicked = TRUE]
    ELSE LET w == fs_write(st.fs, e.readonly, path,
                           tsconfig_with_mapping(config)) IN
           IF w.ok THEN [st EXCEPT !.fs = w.fs, !.writes = @ \cup {path}]
           ELSE Warn(st, <<"Failed to write", path>>)

\* Indexing a serde_json value that is neither an object nor null, to
\* assign into it, panics.
ensure_tsconfig_paths(st, e, path) ==
  LET read == fs_read_to_string(st.fs, path)
      config == IF Exists(st.fs, path) /\ read.ok
                THEN tsconfig_parse(read.contents) ELSE "json:empty"
  IN
    IF config = "json:not-object" THEN [st EXCEPT !.panicked = TRUE]
    ELSE IF config \in {"json:mapped", "json:user+mapped"} THEN st
    ELSE LET w == fs_write(st.fs, e.readonly, path,
                           tsconfig_with_mapping(config)) IN
           IF w.ok THEN [st EXCEPT !.fs = w.fs, !.writes = @ \cup {path}]
           ELSE Warn(st, <<"Failed to write", path>>)

\* One sample file: written when nothing is at its path.
SampleFile(st, e, path, contents) ==
  IF Exists(st.fs, path) THEN st
  ELSE LET w == fs_write(st.fs, e.readonly, path, contents) IN
         IF w.ok THEN [st EXCEPT !.fs = w.fs, !.writes = @ \cup {path}]
         ELSE Warn(st, <<"Failed to create sample", path>>)

create_sample_files(st, e, kit_dir) ==
  SampleFile(SampleFile(st, e, kit_dir \o HELLO_WORLD_TS, HELLO_SCRIPT),
             e, kit_dir \o GETTING_STARTED_MD, SAMPLE_SCRIPTLET)

RECURSIVE EnsureDirs(_, _, _, _)
EnsureDirs(st, e, kit_dir, i) ==
  IF i > Len(RequiredDirs) THEN st
  ELSE EnsureDirs(ensure_dir(st, e, kit_dir \o RequiredDirs[i]), e,
                  kit_dir, i + 1)

\* The call's outcome: what it reports (nothing, when it panicked), and the
\* file system it leaves.
SetupResult(st, is_fresh_install, bun_available) ==
  [outcome |-> IF st.panicked THEN "panicked" ELSE "returned",
   is_fresh_install |-> is_fresh_install,
   bun_available |-> bun_available,
   warnings |-> st.warnings,
   writes |-> st.writes,
   fs |-> st.fs]

ensure_kit_setup(f, e) ==
  LET kit_dir == get_kit_path(e)
      is_fresh_install == ~Exists(f, kit_dir)
      root == create_dir_all(f, e.readonly, kit_dir)
      s0 == [Begin(root.fs) EXCEPT !.writes = root.made]
      s1 == EnsureDirs(s0, e, kit_dir, 1)
      s2 == write_string_if_changed(s1, e, kit_dir \o SDK_FILE, EMBEDDED_SDK)
      s3 == write_string_if_missing(s2, e, kit_dir \o CONFIG_TS,
                                    EMBEDDED_CONFIG_TEMPLATE)
      s4 == write_string_if_missing(s3, e, kit_dir \o THEME_JSON,
                                    EMBEDDED_THEME_EXAMPLE)
      s5 == ensure_tsconfig_paths(s4, e, kit_dir \o TSCONFIG_JSON)
      s6 == write_string_if_changed(s5, e, kit_dir \o GITIGNORE,
                                    GITIGNORE_CONTENT)
      bun_available == bun_is_discoverable(e)
      s7 == IF bun_available THEN s6 ELSE Warn(s6, <<"bun not found">>)
      s8 == IF is_fresh_install THEN create_sample_files(s7, e, kit_dir)
            ELSE s7
  IN
    IF ~root.ok
    THEN SetupResult(Warn(Begin(f), <<"Failed to create kit root", kit_dir>>),
                     is_fresh_install, FALSE)
    ELSE IF s5.panicked THEN SetupResult(s5, is_fresh_install, FALSE)
    ELSE SetupResult(s8, is_fresh_install, bun_available)

\* fs::rename(old, new) of a file or of a directory taken as a whole.
fs_rename(f, old, new) == [f EXCEPT ![new] = f[old], ![old] = "absent"]

\* fs::remove_dir_all(path): the directory and all below it, or the link.
fs_remove_dir_all(f, path) ==
  [q \in Paths |-> IF q \in Below(path) THEN "absent" ELSE f[q]]

\* Every entry of ~/.kenv/<dir> is moved to ~/.sk/kit/main/<dir>.
MoveEntries(f, dir, entries) ==
  IF ~(Exists(f, KENV \o <<dir>>) /\ IsDir(f, KENV \o <<dir>>)) THEN f
  ELSE [q \in Paths |->
          IF \E x \in entries :
               q = KIT \o <<"main", dir, x>> /\ f[KENV \o <<dir, x>>] # "absent"
          THEN f[KENV \o <<dir, q[Len(q)]>>]
          ELSE IF \E x \in entries : q = KENV \o <<dir, x>>
          THEN "absent"
          ELSE f[q]]

\* The named files (or, with dirsOnly, directories) of ~/.kenv are moved to
\* ~/.sk/kit, each unless something is at its new path.
RECURSIVE MoveNamed(_, _, _, _)
MoveNamed(f, names, dirsOnly, i) ==
  IF i > Len(names) THEN f
  ELSE LET old == KENV \o names[i]
           new == KIT \o names[i]
           moved == /\ Exists(f, old)
                    /\ dirsOnly => IsDir(f, old)
                    /\ ~Exists(f, new)
       IN MoveNamed(IF moved THEN fs_rename(f, old, new) ELSE f,
                    names, dirsOnly, i + 1)

\* The platform's last step: on Unix ~/.kenv becomes a link to ~/.sk/kit.
LeaveSymlink(f, e) == IF e.unix THEN [f EXCEPT ![KENV] = "symlink"] ELSE f

migrate_ignores_new_root(f, e) ==
  LET sk == create_dir_all(f, e.readonly, SK)
      scripts == create_dir_all(sk.fs, e.readonly, KIT \o <<"main", "scripts">>)
      scriptlets ==
        create_dir_all(scripts.fs, e.readonly, KIT \o <<"main", "scriptlets">>)
      m1 == MoveEntries(scriptlets.fs, "scripts", ScriptEntries)
      m2 == MoveEntries(m1, "scriptlets", ScriptletEntries)
      m3 == MoveNamed(m2, ConfigFiles, FALSE, 1)
      m4 == MoveNamed(m3, DataDirs, TRUE, 1)
      m5 == MoveNamed(m4, DataFiles, FALSE, 1)
      m6 == fs_remove_dir_all(m5, KENV)
  IN
    IF ~e.home THEN [migrated |-> FALSE, fs |-> f]
    ELSE IF ~Exists(f, KENV) THEN [migrated |-> FALSE, fs |-> f]
    ELSE IF ~sk.ok THEN [migrated |-> FALSE, fs |-> f]
    ELSE IF ~scripts.ok THEN [migrated |-> FALSE, fs |-> sk.fs]
    ELSE IF ~scriptlets.ok THEN [migrated |-> FALSE, fs |-> scripts.fs]
    ELSE [migrated |-> TRUE, fs |-> LeaveSymlink(m6, e)]

migrate_from_kenv(f, e) ==
  LET sk == create_dir_all(f, e.readonly, SK)
      scripts == create_dir_all(sk.fs, e.readonly, KIT \o <<"main", "scripts">>)
      scriptlets ==
        create_dir_all(scripts.fs, e.readonly, KIT \o <<"main", "scriptlets">>)
      m1 == MoveEntries(scriptlets.fs, "scripts", ScriptEntries)
      m2 == MoveEntries(m1, "scriptlets", ScriptletEntries)
      m3 == MoveNamed(m2, ConfigFiles, FALSE, 1)
      m4 == MoveNamed(m3, DataDirs, TRUE, 1)
      m5 == MoveNamed(m4, DataFiles, FALSE, 1)
      m6 == fs_remove_dir_all(m5, KENV)
  IN
    IF ~e.home THEN [migrated |-> FALSE, fs |-> f]
    ELSE IF ~Exists(f, KENV) \/ Exists(f, KIT)
    THEN [migrated |-> FALSE, fs |-> f]
    ELSE IF ~sk.ok THEN [migrated |-> FALSE, fs |-> f]
    ELSE IF ~scripts.ok THEN [migrated |-> FALSE, fs |-> sk.fs]
    ELSE IF ~scriptlets.ok THEN [migrated |-> FALSE, fs |-> scripts.fs]
    ELSE [migrated |-> TRUE, fs |-> LeaveSymlink(m6, e)]

\* ------------------------------------------------------------ app launcher

\* The directories scanned, in the order of the scan.
APP_DIRECTORIES ==
  <<"/Applications", "/System/Applications", "~/Applications",
    "/Applications/Utilities">>

\* The .app bundles that may be installed: the directory, the bundle's file
\* stem and the bundle identifier of its Info.plist.
Bundles ==
  { [dir |-> "/Applications", name |-> "Safari",
     bundle_id |-> "com.apple.Safari"],
    [dir |-> "/Applications", name |-> "Mail", bundle_id |-> "com.apple.mail"],
    [dir |-> "~/Applications", name |-> "safari", bundle_id |-> "none"] }

\* str::to_lowercase on the names of the model.
to_lowercase(name) == IF name = "Safari" THEN "safari"
                      ELSE IF name = "Mail" THEN "mail" ELSE name

\* The order of the lowercase names as strings.
NameRank(name) == IF to_lowercase(name) = "mail" THEN 1 ELSE 2

parse_app_bundle(b) ==
  [name |-> b.name, path |-> <<b.dir, b.name, "app">>,
   bundle_id |-> b.bundle_id]

\* scan_directory: the bundles found in one directory, in the order read_dir
\* yields them.
RECURSIVE SetToSeq(_)
SetToSeq(set) ==
  IF set = {} THEN <<>>
  ELSE LET x == CHOOSE y \in set : \A z \in set : NameRank(z.name) >= NameRank(y.name)
       IN <<x>> \o SetToSeq(set \ {x})

scan_directory(installed, dir) ==
  LET found == SetToSeq({ b \in installed : b.dir = dir }) IN
    [i \in 1..Len(found) |-> parse_app_bundle(found[i])]

\* Vec::sort_by on the lowercase name: a stable insertion of each element
\* after those that do not compare greater.
RECURSIVE sort_by_name(_)
sort_by_name(apps) ==
  IF apps = <<>> THEN <<>>
  ELSE LET n == Len(apps)
           init == sort_by_name(SubSeq(apps, 1, n - 1))
           x == apps[n]
           keep == { i \in 1..Len(init) :
                       NameRank(init[i].name) <= NameRank(x.name) }
           k == Cardinality(keep)
       IN SubSeq(init, 1, k) \o <<x>> \o SubSeq(init, k + 1, Len(init))

\* Vec::dedup_by on the lowercase name: of consecutive equal elements the
\* first is kept.
RECURSIVE dedup_by_name(_)
dedup_by_name(apps) ==
  IF Len(apps) <= 1 THEN apps
  ELSE LET n == Len(apps)
           init == dedup_by_name(SubSeq(apps, 1, n - 1))
       IN IF to_lowercase(init[Len(init)].name) = to_lowercase(apps[n].name)
          THEN init ELSE Append(init, apps[n])

RECURSIVE ScanFrom(_, _)
ScanFrom(installed, i) ==
  IF i > Len(APP_DIRECTORIES) THEN <<>>
  ELSE scan_directory(installed, APP_DIRECTORIES[i])
         \o ScanFrom(installed, i + 1)

scan_all_directories(installed) ==
  dedup_by_name(sort_by_name(ScanFrom(installed, 1)))

\* scan_applications_fresh: the list scanned now; the cache is not touched.
scan_applications_fresh(disk, cache) ==
  [apps |-> scan_all_directories(disk), cache |-> cache]

\* The threads that call the scans.
Threads == {"t1", "t2"}

\* OnceLock<Vec<AppInfo>>: not initialised, being initialised by one thread,
\* or holding its value for the rest of the program.
EmptyCache == [state |-> "uninit", value |-> <<>>]

get_or_init_unlocked(cache) ==
  IF cache.state = "done" THEN [pc |-> "return", cache |-> cache]
  ELSE [pc |-> "init", cache |-> [cache EXCEPT !.state = "running"]]

\* OnceLock::get_or_init on entry: the value if there is one; else the
\* caller runs the closure if no other thread is running it, and waits for
\* that thread if one is.
OnceLock_get_or_init(cache) ==
  IF cache.state = "done" THEN [pc |-> "return", cache |-> cache]
  ELSE IF cache.state = "running" THEN [pc |-> "wait", cache |-> cache]
  ELSE [pc |-> "init", cache |-> [cache EXCEPT !.state = "running"]]

\* ------------------------------------------------------------------ theme

ColorScheme_dark_default ==
  [background |-> [main |-> 1973790, title_bar |-> 2960688,
                   search_box |-> 3947580, log_panel |-> 855309],
   text |-> [primary |-> 16777215, secondary |-> 14737632,
             tertiary |-> 10066329, muted |-> 8421504, dimmed |-> 6710886],
   accent |-> [selected |-> 31436],
   ui |-> [border |-> 4605511, success |-> 65280]]

ColorScheme_light_default ==
  [background |-> [main |-> 16777215, title_bar |-> 15987699,
                   search_box |-> 15527148, log_panel |-> 16448250],
   text |-> [primary |-> 0, secondary |-> 3355443,
             tertiary |-> 6710886, muted |-> 10066329, dimmed |-> 13421772],
   accent |-> [selected |-> 30932],
   ui |-> [border |-> 13684944, success |-> 40960]]

\* A colour scheme of the user's: the dark one with another accent.
ColorScheme_custom ==
  [ColorScheme_dark_default EXCEPT !.accent.selected =
     ColorScheme_light_default.accent.selected]

ColorScheme_default == ColorScheme_dark_default

Theme_default == [colors |-> ColorScheme_default]

\* What running `defaults read -g AppleInterfaceStyle` can give: the command
\* cannot be run, or it runs and prints something.
CommandOutcomes ==
  {[run |-> "Err", stdout |-> ""]}
    \cup { [run |-> "Ok", stdout |-> out] :
             out \in {"Dark", "dark", "", "Light"} }

\* stdout.to_lowercase().contains("dark") on the outputs of the model.
stdout_contains_dark(stdout) == stdout \in {"Dark", "dark"}

detect_system_appearance(command) ==
  IF command.run = "Ok" THEN stdout_contains_dark(command.stdout) ELSE FALSE

\* ~/.kit/theme.json: not there, there but unreadable, or its text.
ThemeFiles ==
  {"absent", "unreadable", "theme:dark", "theme:light", "theme:custom",
   "theme:field-missing", "theme:not-json", ""}

\* serde_json::from_str::<Theme>(&contents)
Theme_from_str(contents) ==
  CASE contents = "theme:dark" ->
         [ok |-> TRUE, theme |-> [colors |-> ColorScheme_dark_default]]
    [] contents = "theme:light" ->
         [ok |-> TRUE, theme |-> [colors |-> ColorScheme_light_default]]
    [] contents = "theme:custom" ->
         [ok |-> TRUE, theme |-> [colors |-> ColorScheme_custom]]
    [] OTHER -> [ok |-> FALSE, theme |-> Theme_default]

\* The theme chosen from the system's appearance.
ThemeByAppearance(command) ==
  [colors |-> IF detect_system_appearance(command)
              THEN ColorScheme_dark_default ELSE ColorScheme_light_default]

load_theme(file, command) ==
  IF file = "absent" THEN ThemeByAppearance(command)
  ELSE IF file = "unreadable" THEN ThemeByAppearance(command)
  ELSE LET parsed == Theme_from_str(file) IN
         IF parsed.ok THEN parsed.theme ELSE ThemeByAppearance(command)

\* ---------------------------------------------------------------- protocol

\* A stream is a sequence of pieces: the JSON text of a message, blanks,
\* text that is no message, bytes that are not UTF-8, and the newline.
MessageTexts == {"{exit}", "{submit}"}
Pieces == MessageTexts \cup {" ", "junk", "0xFF", "LF"}

\* The longest stream followed.
MaxStreamLen == 4

JsonlStreams == UNION { [1..n -> Pieces] : n \in 0..MaxStreamLen }

\* serde_json::from_str::<Message> on a text without surrounding blanks.
parse_message(text) ==
  IF text = <<"{exit}">>
  THEN [ok |-> TRUE, msg |-> [type |-> "exit", id |-> "None", value |-> "None"]]
  ELSE IF text = <<"{submit}">>
  THEN [ok |-> TRUE, msg |-> [type |-> "submit", id |-> "1", value |-> "None"]]
  ELSE [ok |-> FALSE, msg |-> [type |-> "none", id |-> "None", value |-> "None"]]

\* str::trim: leading and trailing white space is dropped.
IsWhite(piece) == piece \in {" ", "LF"}

RECURSIVE trim_start(_)
trim_start(text) ==
  IF text # <<>> /\ IsWhite(Head(text)) THEN trim_start(Tail(text)) ELSE text

RECURSIVE trim_end(_)
trim_end(text) ==
  IF text # <<>> /\ IsWhite(text[Len(text)])
  THEN trim_end(SubSeq(text, 1, Len(text) - 1)) ELSE text

trim(text) == trim_end(trim_start(text))

\* BufRead::read_line from position pos: everything up to and including the
\* next newline, or up to the end; an error, with the bytes consumed, when
\* they are not UTF-8.
RECURSIVE LineEnd(_, _)
LineEnd(stream, pos) ==
  IF pos >= Len(stream) THEN Len(stream)
  ELSE IF stream[pos + 1] = "LF" THEN pos + 1
  ELSE LineEnd(stream, pos + 1)

read_line(stream, pos) ==
  LET end == LineEnd(stream, pos)
      line == SubSeq(stream, pos + 1, end)
  IN [ok |-> \A i \in 1..Len(line) : line[i] # "0xFF",
      n |-> end - pos, line |-> line, pos |-> end]

NoMessage == [type |-> "none", id |-> "None", value |-> "None"]

next_message_blank_is_eof(reader) ==
  LET read == read_line(reader.stream, reader.pos)
      parsed == parse_message(trim(read.line))
      after == [reader EXCEPT !.pos = read.pos]
  IN
    IF ~read.ok THEN [reader |-> after, kind |-> "Err", msg |-> NoMessage]
    ELSE IF read.n = 0 \/ trim(read.line) = <<>>
    THEN [reader |-> after, kind |-> "None", msg |-> NoMessage]
    ELSE IF ~parsed.ok
    THEN [reader |-> after, kind |-> "Err", msg |-> NoMessage]
    ELSE [reader |-> after, kind |-> "Some", msg |-> parsed.msg]

JsonlReader_new(stream) == [stream |-> stream, pos |-> 0]

JsonlReader_next_message(reader) ==
  LET read == read_line(reader.stream, reader.pos)
      parsed == parse_message(trim(read.line))
      after == [reader EXCEPT !.pos = read.pos]
  IN
    IF ~read.ok THEN [reader |-> after, kind |-> "Err", msg |-> NoMessage]
    ELSE IF read.n = 0
    THEN [reader |-> after, kind |-> "None", msg |-> NoMessage]
    ELSE IF ~parsed.ok
    THEN [reader |-> after, kind |-> "Err", msg |-> NoMessage]
    ELSE [reader |-> after, kind |-> "Some", msg |-> parsed.msg]

\* ------------------------------------------------------------- path prompt

\* The longest filter text followed.
MaxFilterLen == 2

\* The directories on disk and what std::fs::read_dir finds in each.
PromptDirs == {"/", "/Docs", "/Docs/Empty"}

ReadDir(dir) ==
  CASE dir = "/" ->
         {[name |-> "Docs", path |-> "/Docs", is_dir |-> TRUE],
          [name |-> "a.txt", path |-> "/a.txt", is_dir |-> FALSE],
          [name |-> ".git", path |-> "/.git", is_dir |-> TRUE]}
    [] dir = "/Docs" ->
         {[name |-> "Empty", path |-> "/Docs/Empty", is_dir |-> TRUE],
          [name |-> "b.txt", path |-> "/Docs/b.txt", is_dir |-> FALSE],
          [name |-> "B2.txt", path |-> "/Docs/B2.txt", is_dir |-> FALSE]}
    [] OTHER -> {}

\* Path::parent
path_parent(path) ==
  CASE path = "/Docs" -> "/"
    [] path = "/Docs/Empty" -> "/Docs"
    [] OTHER -> "None"

\* The characters of a name, in lower case.
LowerChars(name) ==
  CASE name = "Docs" -> <<"d", "o", "c", "s">>
    [] name = "Empty" -> <<"e", "m", "p", "t", "y">>
    [] name = "a.txt" -> <<"a", ".", "t", "x", "t">>
    [] name = "b.txt" -> <<"b", ".", "t", "x", "t">>
    [] name = "B2.txt" -> <<"b", "2", ".", "t", "x", "t">>
    [] OTHER -> <<".", "g", "i", "t">>

\* The names of the disk in the order of their lower-case forms.
NamesInOrder == <<".git", "a.txt", "b.txt", "B2.txt", "Docs", "Empty">>

\* Vec::sort_by on the lower-case name, for entries of distinct names.
SortedByName(set) ==
  LET pick(i) == { x \in set : x.name = NamesInOrder[i] }
      F[i \in 0..Len(NamesInOrder)] ==
        IF i = 0 THEN <<>>
        ELSE IF pick(i) = {} THEN F[i - 1]
        ELSE Append(F[i - 1], CHOOSE x \in pick(i) : TRUE)
  IN F[Len(NamesInOrder)]

load_entries(dir_path) ==
  LET shown == { x \in ReadDir(dir_path) : Head(LowerChars(x.name)) # "." }
  IN SortedByName({ x \in shown : x.is_dir })
       \o SortedByName({ x \in shown : ~x.is_dir })

\* The home directory, where a prompt without a start path begins.
PromptHome == "/Docs"

PathPrompt_new(id, start_path) ==
  LET current_path == IF start_path = "None" THEN PromptHome ELSE start_path
      entries == load_entries(current_path)
  IN [id |-> id, current_path |-> current_path, filter_text |-> <<>>,
      selected_index |-> 0, entries |-> entries,
      filtered_entries |-> entries,
      on_show_actions |-> FALSE, on_close_actions |-> FALSE]

update_filtered(this) ==
  LET matches(x) == Contains(LowerChars(x.name), this.filter_text)
      filtered == IF this.filter_text = <<>> THEN this.entries
                  ELSE SelectSeq(this.entries, matches)
  IN [this EXCEPT !.filtered_entries = filtered,
                  !.selected_index =
                     IF this.selected_index >= Len(filtered) THEN 0
                     ELSE this.selected_index]

navigate_to(this, path) ==
  LET entries == load_entries(path) IN
    [this EXCEPT !.current_path = path, !.entries = entries,
                 !.filter_text = <<>>, !.filtered_entries = entries,
                 !.selected_index = 0]

\* filtered_entries.get(selected_index)
HasSelected(this) == this.selected_index < Len(this.filtered_entries)
Selected(this) == this.filtered_entries[this.selected_index + 1]

\* What a key handler leaves: the prompt and the callbacks it has invoked.
Done(this, calls) == [this |-> this, calls |-> calls]

\* A callback invoked: on_show_actions with the PathInfo of an entry,
\* on_close_actions, or on_submit with the prompt's id and Some(path),
\* Some(filter text) or None.
ShowCall(entry) ==
  [callback |-> "on_show_actions", id |-> "None", some |-> TRUE,
   name |-> entry.name, path |-> entry.path, is_dir |-> entry.is_dir,
   text |-> <<>>]

CloseCall ==
  [callback |-> "on_close_actions", id |-> "None", some |-> FALSE,
   name |-> "None", path |-> "None", is_dir |-> FALSE, text |-> <<>>]

SubmitCall(id, some, path, text) ==
  [callback |-> "on_submit", id |-> id, some |-> some, name |-> "None",
   path |-> path, is_dir |-> FALSE, text |-> text]

show_actions(this) ==
  IF HasSelected(this) /\ this.on_show_actions
  THEN Done(this, <<ShowCall(Selected(this))>>)
  ELSE Done(this, <<>>)

close_actions(this) ==
  IF this.on_close_actions
  THEN Done(this, <<CloseCall>>)
  ELSE Done(this, <<>>)

toggle_always_shows(this, is_showing) == show_actions(this)

toggle_actions(this, is_showing) ==
  IF is_showing THEN close_actions(this) ELSE show_actions(this)

submit_navigates_into_directory(this) ==
  IF HasSelected(this)
  THEN IF Selected(this).is_dir
       THEN Done(navigate_to(this, Selected(this).path), <<>>)
       ELSE Done(this, <<SubmitCall(this.id, TRUE, Selected(this).path, <<>>)>>)
  ELSE IF this.filter_text # <<>>
  THEN Done(this, <<SubmitCall(this.id, TRUE, "None", this.filter_text)>>)
  ELSE Done(this, <<>>)

submit_selected(this) ==
  IF HasSelected(this)
  THEN Done(this, <<SubmitCall(this.id, TRUE, Selected(this).path, <<>>)>>)
  ELSE IF this.filter_text # <<>>
  THEN Done(this, <<SubmitCall(this.id, TRUE, "None", this.filter_text)>>)
  ELSE Done(this, <<>>)

handle_enter(this) == submit_selected(this)

submit_cancel(this) ==
  Done(this, <<SubmitCall(this.id, FALSE, "None", <<>>)>>)

move_up(this) ==
  IF this.selected_index > 0
  THEN Done([this EXCEPT !.selected_index = @ - 1], <<>>)
  ELSE Done(this, <<>>)

\* len().saturating_sub(1)
LastIndex(this) ==
  IF Len(this.filtered_entries) = 0 THEN 0 ELSE Len(this.filtered_entries) - 1

move_down(this) ==
  IF this.selected_index < LastIndex(this)
  THEN Done([this EXCEPT !.selected_index = @ + 1], <<>>)
  ELSE Done(this, <<>>)

handle_char(this, ch) ==
  Done(update_filtered([this EXCEPT !.filter_text = Append(@, ch)]), <<>>)

navigate_to_parent(this) ==
  IF path_parent(this.current_path) # "None"
  THEN Done(navigate_to(this, path_parent(this.current_path)), <<>>)
  ELSE Done(this, <<>>)

handle_backspace(this) ==
  IF this.filter_text # <<>>
  THEN Done(update_filtered(
              [this EXCEPT !.filter_text = SubSeq(@, 1, Len(@) - 1)]), <<>>)
  ELSE navigate_to_parent(this)

navigate_into_selected(this) ==
  IF HasSelected(this) /\ Selected(this).is_dir
  THEN Done(navigate_to(this, Selected(this).path), <<>>)
  ELSE Done(this, <<>>)

\* The key events followed: the key, the platform and shift modifiers and
\* the character the key types, if any.
Key(key, platform, shift, key_char) ==
  [key |-> key, platform |-> platform, shift |-> shift, key_char |-> key_char]

KeyEvents ==
  { Key("k", TRUE, FALSE, "None"), Key("K", TRUE, TRUE, "None"),
    Key("up", FALSE, FALSE, "None"), Key("down", FALSE, FALSE, "None"),
    Key("left", FALSE, FALSE, "None"), Key("right", FALSE, FALSE, "None"),
    Key("tab", FALSE, FALSE, "None"), Key("tab", FALSE, TRUE, "None"),
    Key("enter", FALSE, FALSE, "None"), Key("escape", FALSE, FALSE, "None"),
    Key("backspace", FALSE, FALSE, "None"), Key("f1", FALSE, FALSE, "None"),
    Key("d", FALSE, FALSE, "d"), Key("x", FALSE, FALSE, "x") }

key_to_lowercase(key) == IF key = "K" THEN "k" ELSE key

\* The key-down listener of render().
handle_key(this, actions_showing, event) ==
  LET key_str == key_to_lowercase(event.key) IN
    IF event.platform /\ key_str = "k"
    THEN toggle_actions(this, actions_showing)
    ELSE IF actions_showing THEN Done(this, <<>>)
    ELSE CASE key_str \in {"up", "arrowup"} -> move_up(this)
           [] key_str \in {"down", "arrowdown"} -> move_down(this)
           [] key_str \in {"left", "arrowleft"} -> navigate_to_parent(this)
           [] key_str \in {"right", "arrowright"} ->
                navigate_into_selected(this)
           [] key_str = "tab" ->
                IF event.shift THEN navigate_to_parent(this)
                ELSE navigate_into_selected(this)
           [] key_str = "enter" -> handle_enter(this)
           [] key_str = "escape" -> submit_cancel(this)
           [] key_str = "backspace" -> handle_backspace(this)
           [] OTHER ->
                IF event.key_char # "None"
                THEN handle_char(this, event.key_char)
                ELSE Done(this, <<>>)

\* ------------------------------------------------------------------- state

VARIABLES
  term,   \* the TerminalHandle
  pty,    \* the PtyManager
  feed,   \* history: the stream being fed to process() and where it began
  last,   \* history: the last call, its arguments and its outcome
  adapters,   \* the ThemeAdapter value held in each place
  bound,      \* the place of the adapter in use and of a clone of it, if any
  themeLast,  \* history: the last ThemeAdapter call and the values obtained
  fs,         \* the file system: what is found at each path
  env,        \* the environment of the setup calls
  setupLast,  \* history: the last setup call, its outcome and what it met
  installed,  \* the .app bundles on disk
  appCache,   \* the static APP_CACHE
  appPc,      \* where each thread is in its call
  appHist,    \* history: closure runs, lists returned, the last fresh scan
  themeFile,  \* ~/.kit/theme.json
  appearance, \* what the `defaults` command gives when run
  loadLast,   \* history: the last load_theme call, what it met and returned
  reader,     \* the JsonlReader: its stream and how far it has read
  readLast,   \* history: the calls made and what the last one returned
  prompt,     \* the PathPrompt
  actions_showing,   \* the flag the prompt shares with the owner of the dialog
  promptLast  \* history: the last key, what it met and the callbacks invoked

termVars == <<term, pty, feed, last>>
themeVars == <<adapters, bound, themeLast>>
setupVars == <<fs, env, setupLast>>
appVars == <<installed, appCache, appPc, appHist>>
loadVars == <<themeFile, appearance, loadLast>>
readVars == <<reader, readLast>>
promptVars == <<prompt, actions_showing, promptLast>>
vars ==
  <<term, pty, feed, last, adapters, bound, themeLast, fs, env, setupLast,
    installed, appCache, appPc, appHist, themeFile, appearance, loadLast,
    reader, readLast, prompt, actions_showing, promptLast>>

NoFeed(t) == [base |-> t, fed |-> <<>>, calls |-> 0]

NoCall ==
  [op |-> "new", cols |-> 0, rows |-> 0, data |-> <<>>, result |-> "unit",
   changed |-> FALSE, repeat |-> FALSE, same |-> TRUE]

\* The call being made repeats the call before it: same operation, same
\* dimensions.
Repeats(op, cols, rows) ==
  last.op = op /\ last.cols = cols /\ last.rows = rows

\* The theme of a session that never changes it.
ThemeIdle ==
  /\ adapters = [q \in Places |-> ThemeAdapter_default]
  /\ bound = [current |-> "a", held |-> "none"]
  /\ themeLast = [op |-> "default", args |-> <<>>,
                  before |-> ThemeAdapter_default,
                  obtained |-> [current |-> ThemeAdapter_default,
                                held |-> ThemeAdapter_default]]

\* Nothing on disk but the temporary directory.
EmptyFs == [path \in Paths |-> IF path = <<"tmp">> THEN "dir" ELSE "absent"]

NoRun ==
  [op |-> "none", outcome |-> "none", is_fresh_install |-> FALSE,
   bun_available |-> FALSE, warnings |-> <<>>, writes |-> {},
   before |-> EmptyFs, repeat |-> FALSE, prev |-> "none",
   migrated |-> FALSE, earlier |-> FALSE]

\* No setup call is made: the file system plays no part.
SetupIdle ==
  /\ fs = EmptyFs
  /\ env = [home |-> TRUE, readonly |-> FALSE, bun |-> TRUE, unix |-> TRUE]
  /\ setupLast = NoRun

NoScans ==
  [initRuns |-> 0, returned |-> {}, op |-> "none", cacheBefore |-> EmptyCache,
   fresh |-> <<>>]

\* No scan is called.
AppIdle ==
  /\ installed = {}
  /\ appCache = EmptyCache
  /\ appPc = [t \in Threads |-> "idle"]
  /\ appHist = NoScans

NoLoad ==
  [op |-> "none", file |-> "absent", command |-> [run |-> "Err", stdout |-> ""],
   theme |-> Theme_default]

\* No theme is loaded.
LoadIdle ==
  /\ themeFile = "absent"
  /\ appearance = [run |-> "Err", stdout |-> ""]
  /\ loadLast = NoLoad

NoRead == [calls |-> 0, kind |-> "none", msg |-> NoMessage]

\* No stream is read.
ReadIdle ==
  /\ reader = JsonlReader_new(<<>>)
  /\ readLast = NoRead

NoKey(this) ==
  [op |-> "none", event |-> Key("none", FALSE, FALSE, "None"),
   showing |-> FALSE, before |-> this, calls |-> <<>>]

\* No key reaches a prompt.
PromptIdle ==
  /\ prompt = PathPrompt_new("prompt", "None")
  /\ actions_showing = FALSE
  /\ promptLast = NoKey(prompt)

TermInit ==
  /\ term \in
       {TerminalHandle_default}
         \cup { TerminalHandle_with_scrollback(c, r, n) :
                  c \in InitDims, r \in InitDims, n \in 0..MaxScrollback }
  /\ pty \in
       {PtyManager_new}
         \cup { PtyManager_with_size(c, r) : c \in InitDims, r \in InitDims }
  /\ feed = NoFeed(term)
  /\ last = NoCall

Init ==
  /\ TermInit /\ ThemeIdle /\ SetupIdle /\ AppIdle /\ LoadIdle /\ ReadIdle
  /\ PromptIdle

\* terminal.resize(cols, rows)
TermResize ==
  \E cols \in Dims, rows \in Dims :
    /\ term' = TerminalHandle_resize(term, cols, rows)
    /\ feed' = NoFeed(term')
    /\ last' = [op |-> "term_resize", cols |-> cols, rows |-> rows,
                data |-> <<>>, result |-> "unit",
                changed |-> TerminalHandle_size(term') # TerminalHandle_size(term),
                repeat |-> Repeats("term_resize", cols, rows),
                same |-> term' = term]
    /\ UNCHANGED pty
    /\ UNCHANGED themeVars
    /\ UNCHANGED setupVars
    /\ UNCHANGED appVars
    /\ UNCHANGED loadVars
    /\ UNCHANGED readVars
    /\ UNCHANGED promptVars

\* pty.resize(cols, rows)
PtyResize ==
  \E cols \in Dims, rows \in Dims :
    LET r == PtyManager_resize(pty, cols, rows) IN
      /\ pty' = r.pty
      /\ last' = [op |-> "pty_resize", cols |-> cols, rows |-> rows,
                  data |-> <<>>, result |-> r.result,
                  changed |-> PtyManager_size(r.pty) # PtyManager_size(pty),
                  repeat |-> Repeats("pty_resize", cols, rows),
                  same |-> r.pty = pty]
      /\ UNCHANGED <<term, feed>>
      /\ UNCHANGED themeVars
      /\ UNCHANGED setupVars
      /\ UNCHANGED appVars
      /\ UNCHANGED loadVars
      /\ UNCHANGED readVars
      /\ UNCHANGED promptVars

\* terminal.process(data), data being the next chunk of a stream
TermProcess ==
  LET cur == IF feed.fed \in Streams THEN NoFeed(term) ELSE feed IN
    \E data \in Chunks(cur.fed) :
      /\ term' = TerminalHandle_process(term, data)
      /\ feed' = [base |-> cur.base, fed |-> cur.fed \o data,
                  calls |-> cur.calls + 1]
      /\ last' = [op |-> "process", cols |-> 0, rows |-> 0, data |-> data,
                  result |-> "unit", changed |-> term' # term,
                  repeat |-> FALSE, same |-> term' = term]
      /\ UNCHANGED pty
      /\ UNCHANGED themeVars
      /\ UNCHANGED setupVars
      /\ UNCHANGED appVars
      /\ UNCHANGED loadVars
      /\ UNCHANGED readVars
      /\ UNCHANGED promptVars

Next == TermResize \/ PtyResize \/ TermProcess

Spec == Init /\ [][Next]_vars

\* ------------------------------------------------------- theme changes

\* The terminal of a session in which only the theme changes.
TermIdle ==
  /\ term = TerminalHandle_default
  /\ pty = PtyManager_new
  /\ feed = NoFeed(term)
  /\ last = NoCall

ThemeInit ==
  /\ TermIdle /\ ThemeIdle /\ SetupIdle /\ AppIdle /\ LoadIdle /\ ReadIdle
  /\ PromptIdle

\* The adapter in use is replaced by a value: the place of the adapter in
\* use receives it, and it is what has been obtained for that place.
Install(value, op, args) ==
  /\ adapters' = [adapters EXCEPT ![bound.current] = value]
  /\ themeLast' = [op |-> op, args |-> args,
                   before |-> adapters[bound.current],
                   obtained |-> [themeLast.obtained EXCEPT !.current = value]]
  /\ UNCHANGED bound

\* adapter = ThemeAdapter::new(background, foreground, cursor)
ThemeNew ==
  \E b \in NewColours, f \in NewColours, c \in NewColours :
    /\ Install(ThemeAdapter_new(b, f, c), "new", <<b, f, c>>)
    /\ UNCHANGED termVars
    /\ UNCHANGED setupVars
    /\ UNCHANGED appVars
    /\ UNCHANGED loadVars
    /\ UNCHANGED readVars
    /\ UNCHANGED promptVars

\* adapter = ThemeAdapter::dark_default()
ThemeDarkDefault ==
  /\ Install(ThemeAdapter_dark_default, "dark_default", <<>>)
  /\ UNCHANGED termVars
  /\ UNCHANGED setupVars
  /\ UNCHANGED appVars
  /\ UNCHANGED loadVars
  /\ UNCHANGED readVars
  /\ UNCHANGED promptVars

\* adapter = ThemeAdapter::light_default()
ThemeLightDefault ==
  /\ Install(ThemeAdapter_light_default, "light_default", <<>>)
  /\ UNCHANGED termVars
  /\ UNCHANGED setupVars
  /\ UNCHANGED appVars
  /\ UNCHANGED loadVars
  /\ UNCHANGED readVars
  /\ UNCHANGED promptVars

\* adapter = adapter.with_selection(background, foreground)
ThemeWithSelection ==
  \E b \in SelectionColours, f \in SelectionColours :
    /\ Install(ThemeAdapter_with_selection(adapters[bound.current], b, f),
               "with_selection", <<b, f>>)
    /\ UNCHANGED termVars
    /\ UNCHANGED setupVars
    /\ UNCHANGED appVars
    /\ UNCHANGED loadVars
    /\ UNCHANGED readVars
    /\ UNCHANGED promptVars

\* held = adapter.clone()
ThemeClone ==
  LET r == ThemeAdapter_clone(adapters, bound.current) IN
    /\ adapters' = r.places
    /\ bound' = [bound EXCEPT !.held = r.place]
    /\ themeLast' = [op |-> "clone", args |-> <<>>,
                     before |-> adapters[bound.current],
                     obtained |-> [themeLast.obtained EXCEPT
                                     !.held = adapters[bound.current]]]
    /\ UNCHANGED termVars
    /\ UNCHANGED setupVars
    /\ UNCHANGED appVars
    /\ UNCHANGED loadVars
    /\ UNCHANGED readVars
    /\ UNCHANGED promptVars

ThemeNext ==
  \/ ThemeNew
  \/ ThemeDarkDefault
  \/ ThemeLightDefault
  \/ ThemeWithSelection
  \/ ThemeClone

SpecTheme == ThemeInit /\ [][ThemeNext]_vars

\* -------------------------------------------------------------- kit setup

\* The directories below a kit root at the start: none, all the setup
\* requires, or all of them with a file where sdk/ should be.
KitDirs(d) ==
  CASE d = "none" -> {<<>>}
    [] d = "all" -> {<<>>, <<"main">>, <<"cache">>} \cup Range(RequiredDirs)
    [] d = "sdk-file" ->
         ({<<>>, <<"main">>, <<"cache">>} \cup Range(RequiredDirs))
           \ {<<"sdk">>}

KitNode(rel, d, files) ==
  IF rel \in KitDirs(d) THEN "dir"
  ELSE IF rel = <<"sdk">> /\ d = "sdk-file" THEN "file:other"
  ELSE IF rel \in DOMAIN files /\ (Len(rel) = 1 \/ Parent(rel) \in KitDirs(d))
  THEN files[rel]
  ELSE "absent"

\* The files a kit root may hold at the start.
KitFileChoices ==
  { (SDK_FILE :> sdk) @@ (CONFIG_TS :> config) @@ (THEME_JSON :> theme)
      @@ (TSCONFIG_JSON :> tsconfig) @@ (GITIGNORE :> gitignore) :
      sdk \in {"absent", "sdk:stale"},
      config \in {"absent", "config:user", "dir"},
      theme \in {"absent", "theme:user"},
      tsconfig \in {"absent", "json:user", "json:invalid", "json:not-object"},
      gitignore \in {"absent", "gitignore:stale"} }

\* ~/.kenv at the start: absent, a link left by an earlier migration, an
\* empty directory, one with only data, or one with scripts, configuration
\* and data.
KenvNode(rel, k) ==
  CASE k = "absent" -> "absent"
    [] k = "symlink" -> IF rel = <<>> THEN "symlink" ELSE "absent"
    [] k = "empty" -> IF rel = <<>> THEN "dir" ELSE "absent"
    [] k = "data" ->
         IF rel \in {<<>>, <<"logs">>} THEN "dir"
         ELSE IF rel = <<"frecency.json">> THEN "data:frecency"
         ELSE "absent"
    [] k = "full" ->
         IF rel \in {<<>>, <<"scripts">>, <<"scriptlets">>, <<"sdk">>}
         THEN "dir"
         ELSE IF rel \in { <<"scripts", x>> : x \in ScriptEntries }
         THEN "script:user"
         ELSE IF rel \in { <<"scriptlets", x>> : x \in ScriptletEntries }
         THEN "scriptlet:user"
         ELSE IF rel = CONFIG_TS THEN "config:user"
         ELSE IF rel = THEME_JSON THEN "theme:user"
         ELSE IF rel = <<"store.json">> THEN "data:store"
         ELSE IF rel = UNKNOWN_FILE THEN "file:other"
         ELSE "absent"

KenvChoices == {"absent", "symlink", "empty", "data", "full"}

Rel(root, path) == SubSeq(path, Len(root) + 1, Len(path))

\* The file system with the given ~/.sk, the kit tree at root and ~/.kenv.
InitFs(sk, root, d, files, k) ==
  [path \in Paths |->
     IF path \in Below(KENV) THEN KenvNode(Rel(KENV, path), k)
     ELSE IF d # "absent" /\ path \in Below(root)
     THEN KitNode(Rel(root, path), d, files)
     ELSE IF path = SK THEN sk
     ELSE IF path = KIT /\ root = KIT /\ d = "absent" /\ sk = "dir"
     THEN files[CONFIG_TS]
     ELSE EmptyFs[path]]

NoFiles ==
  [rel \in {SDK_FILE, CONFIG_TS, THEME_JSON, TSCONFIG_JSON, GITIGNORE} |->
     "absent"]

\* The kit root is there, filled or not.
KitPresentFs ==
  { InitFs("dir", KIT, d, files, k) :
      d \in {"none", "all", "sdk-file"}, files \in KitFileChoices,
      k \in {"absent", "full"} }

\* The kit root is not there, or a file is in its place, or only the
\* fallback kit root is there.
KitAbsentFs ==
  { InitFs(sk, KIT, "absent", NoFiles, k) :
      sk \in {"absent", "dir", "file:other"}, k \in KenvChoices }
  \cup { InitFs("dir", KIT, "absent",
                [NoFiles EXCEPT ![CONFIG_TS] = "file:other"], k) :
           k \in KenvChoices }
  \cup { InitFs("absent", TMP_KIT, "none", NoFiles, k) : k \in KenvChoices }

SetupInit ==
  /\ TermIdle
  /\ ThemeIdle
  /\ AppIdle
  /\ LoadIdle
  /\ ReadIdle
  /\ PromptIdle
  /\ \/ /\ fs \in KitPresentFs
        /\ env \in [home : {TRUE}, readonly : BOOLEAN, bun : BOOLEAN,
                     unix : {TRUE}]
     \/ /\ fs \in KitAbsentFs
        /\ env \in [home : BOOLEAN, readonly : BOOLEAN, bun : BOOLEAN,
                     unix : BOOLEAN]
  /\ setupLast = NoRun

EnsureKitSetup ==
  LET r == ensure_kit_setup(fs, env) IN
    /\ fs' = r.fs
    /\ setupLast' =
         [op |-> "ensure_kit_setup", outcome |-> r.outcome,
          is_fresh_install |-> r.is_fresh_install,
          bun_available |-> r.bun_available, warnings |-> r.warnings,
          writes |-> r.writes, before |-> fs,
          repeat |-> setupLast.op = "ensure_kit_setup",
          prev |-> setupLast.outcome,
          migrated |-> FALSE,
          earlier |-> setupLast.earlier \/ setupLast.migrated]
    /\ UNCHANGED env
    /\ UNCHANGED <<termVars, themeVars>>
    /\ UNCHANGED appVars
    /\ UNCHANGED loadVars
    /\ UNCHANGED readVars
    /\ UNCHANGED promptVars

MigrateFromKenv ==
  LET r == migrate_from_kenv(fs, env) IN
    /\ fs' = r.fs
    /\ setupLast' =
         [NoRun EXCEPT !.op = "migrate_from_kenv", !.outcome = "returned",
                       !.before = fs, !.migrated = r.migrated,
                       !.writes = { q \in Paths : r.fs[q] # fs[q] },
                       !.earlier = setupLast.earlier \/ setupLast.migrated]
    /\ UNCHANGED env
    /\ UNCHANGED <<termVars, themeVars>>
    /\ UNCHANGED appVars
    /\ UNCHANGED loadVars
    /\ UNCHANGED readVars
    /\ UNCHANGED promptVars

\* The user's own files, and what the user writes in them.
UserOwned == {CONFIG_TS, THEME_JSON}
UserContent(rel) == IF rel = CONFIG_TS THEN "config:user" ELSE "theme:user"

\* Between two calls the user edits or deletes one of their files.
UserEdit ==
  \E rel \in UserOwned :
    \E node \in {"absent", UserContent(rel)} :
      LET path == get_kit_path(env) \o rel IN
        /\ fs[Parent(path)] = "dir"
        /\ ~env.readonly
        /\ fs[path] # "dir"
        /\ fs[path] # node
        /\ fs' = [fs EXCEPT ![path] = node]
        /\ setupLast' = [NoRun EXCEPT !.op = "user_edit", !.before = fs,
                                      !.earlier = setupLast.earlier
                                                    \/ setupLast.migrated]
        /\ UNCHANGED env
        /\ UNCHANGED <<termVars, themeVars>>
        /\ UNCHANGED appVars
        /\ UNCHANGED loadVars
        /\ UNCHANGED readVars
        /\ UNCHANGED promptVars

SetupNext == MigrateFromKenv \/ EnsureKitSetup \/ UserEdit

SpecSetup == SetupInit /\ [][SetupNext]_vars

\* ------------------------------------------------------------ app launcher

AppInit ==
  /\ TermIdle
  /\ ThemeIdle
  /\ SetupIdle
  /\ LoadIdle
  /\ ReadIdle
  /\ PromptIdle
  /\ installed \in SUBSET Bundles
  /\ appCache = EmptyCache
  /\ appPc = [t \in Threads |-> "idle"]
  /\ appHist = NoScans

AppOthers ==
  <<termVars, themeVars, setupVars, loadVars, readVars, promptVars>>

\* A thread calls scan_applications and enters get_or_init.
ScanCall(t) ==
  /\ appPc[t] = "idle"
  /\ LET r == OnceLock_get_or_init(appCache) IN
       /\ appCache' = r.cache
       /\ appPc' = [appPc EXCEPT ![t] = r.pc]
  /\ appHist' = [appHist EXCEPT !.op = "scan_call"]
  /\ UNCHANGED <<installed, AppOthers>>

\* The thread running the closure finishes the scan and stores the list.
ScanInit(t) ==
  /\ appPc[t] = "init"
  /\ appCache' = [state |-> "done", value |-> scan_all_directories(installed)]
  /\ appPc' = [appPc EXCEPT ![t] = "return"]
  /\ appHist' = [appHist EXCEPT !.op = "scan_init", !.initRuns = @ + 1]
  /\ UNCHANGED <<installed, AppOthers>>

\* A thread that waited goes on once the value is there.
ScanWake(t) ==
  /\ appPc[t] = "wait"
  /\ appCache.state = "done"
  /\ appPc' = [appPc EXCEPT ![t] = "return"]
  /\ appHist' = [appHist EXCEPT !.op = "scan_wake"]
  /\ UNCHANGED <<installed, appCache, AppOthers>>

\* scan_applications returns the reference to the cached list.
ScanReturn(t) ==
  /\ appPc[t] = "return"
  /\ appPc' = [appPc EXCEPT ![t] = "idle"]
  /\ appHist' = [appHist EXCEPT !.op = "scan_return",
                                !.returned = @ \cup {appCache.value}]
  /\ UNCHANGED <<installed, appCache, AppOthers>>

\* A thread calls scan_applications_fresh.
FreshCall(t) ==
  /\ appPc[t] = "idle"
  /\ appPc' = [appPc EXCEPT ![t] = "fresh"]
  /\ appHist' = [appHist EXCEPT !.op = "fresh_call", !.cacheBefore = appCache]
  /\ UNCHANGED <<installed, appCache, AppOthers>>

\* scan_applications_fresh returns what it has scanned.
FreshReturn(t) ==
  /\ appPc[t] = "fresh"
  /\ LET r == scan_applications_fresh(installed, appCache) IN
       /\ appCache' = r.cache
       /\ appHist' = [appHist EXCEPT !.op = "fresh_return",
                                     !.cacheBefore = appCache,
                                     !.fresh = r.apps]
  /\ appPc' = [appPc EXCEPT ![t] = "idle"]
  /\ UNCHANGED <<installed, AppOthers>>

\* An application is installed or removed while the program runs.
InstallOrRemove ==
  \E b \in Bundles :
    /\ installed' = IF b \in installed THEN installed \ {b}
                    ELSE installed \cup {b}
    /\ appHist' = [appHist EXCEPT !.op = "disk"]
    /\ UNCHANGED <<appCache, appPc, AppOthers>>

AppNext ==
  \/ \E t \in Threads :
       \/ ScanCall(t) \/ ScanInit(t) \/ ScanWake(t) \/ ScanReturn(t)
       \/ FreshCall(t) \/ FreshReturn(t)
  \/ InstallOrRemove

SpecApp == AppInit /\ [][AppNext]_vars

\* ------------------------------------------------------------ theme loading

LoadInit ==
  /\ TermIdle
  /\ ThemeIdle
  /\ SetupIdle
  /\ AppIdle
  /\ ReadIdle
  /\ PromptIdle
  /\ themeFile \in ThemeFiles
  /\ appearance \in CommandOutcomes
  /\ loadLast = NoLoad

LoadOthers ==
  <<termVars, themeVars, setupVars, appVars, readVars, promptVars>>

LoadTheme ==
  /\ loadLast' = [op |-> "load_theme", file |-> themeFile,
                  command |-> appearance,
                  theme |-> load_theme(themeFile, appearance)]
  /\ UNCHANGED <<themeFile, appearance, LoadOthers>>

\* The user writes, breaks or removes the theme file.
ThemeFileChange ==
  \E file \in ThemeFiles :
    /\ file # themeFile
    /\ themeFile' = file
    /\ loadLast' = [loadLast EXCEPT !.op = "file_change"]
    /\ UNCHANGED <<appearance, LoadOthers>>

\* The system's appearance, or the availability of the command, changes.
AppearanceChange ==
  \E command \in CommandOutcomes :
    /\ command # appearance
    /\ appearance' = command
    /\ loadLast' = [loadLast EXCEPT !.op = "appearance_change"]
    /\ UNCHANGED <<themeFile, LoadOthers>>

LoadNext == LoadTheme \/ ThemeFileChange \/ AppearanceChange

SpecLoad == LoadInit /\ [][LoadNext]_vars

\* ---------------------------------------------------------------- protocol

ReadInit ==
  /\ TermIdle
  /\ ThemeIdle
  /\ SetupIdle
  /\ AppIdle
  /\ LoadIdle
  /\ PromptIdle
  /\ \E stream \in JsonlStreams : reader = JsonlReader_new(stream)
  /\ readLast = NoRead

ReadOthers ==
  <<termVars, themeVars, setupVars, appVars, loadVars, promptVars>>

\* The lines of a stream: what lies between its newlines; a newline at the
\* very end opens no further line.
RECURSIVE Lines(_)
Lines(stream) ==
  IF stream = <<>> THEN <<>>
  ELSE LET k == LineEnd(stream, 0) IN
         <<SubSeq(stream, 1, IF stream[k] = "LF" THEN k - 1 ELSE k)>>
           \o Lines(SubSeq(stream, k + 1, Len(stream)))

\* One call of next_message; calls are followed until two of them have met
\* the end of the stream.
NextMessage ==
  /\ readLast.calls <= Len(Lines(reader.stream)) + 1
  /\ LET r == JsonlReader_next_message(reader) IN
       /\ reader' = r.reader
       /\ readLast' = [calls |-> readLast.calls + 1, kind |-> r.kind,
                       msg |-> r.msg]
  /\ UNCHANGED ReadOthers

ReadNext == NextMessage

SpecRead == ReadInit /\ [][ReadNext]_vars

\* ------------------------------------------------------------- path prompt

\* A prompt as its owner builds it: a start path or none, and the two
\* actions callbacks set or not.
PromptInit ==
  /\ TermIdle
  /\ ThemeIdle
  /\ SetupIdle
  /\ AppIdle
  /\ LoadIdle
  /\ ReadIdle
  /\ \E start_path \in PromptDirs \cup {"None"}, show \in BOOLEAN,
        close \in BOOLEAN :
       prompt = [PathPrompt_new("prompt", start_path)
                   EXCEPT !.on_show_actions = show, !.on_close_actions = close]
  /\ actions_showing = FALSE
  /\ promptLast = NoKey(prompt)

PromptOthers ==
  <<termVars, themeVars, setupVars, appVars, loadVars, readVars>>

\* A key-down event reaches the prompt.
KeyDown ==
  \E event \in KeyEvents :
    /\ event.key_char # "None" => Len(prompt.filter_text) < MaxFilterLen
    /\ LET r == handle_key(prompt, actions_showing, event) IN
         /\ prompt' = r.this
         /\ promptLast' = [op |-> "key", event |-> event,
                           showing |-> actions_showing, before |-> prompt,
                           calls |-> r.calls]
    /\ UNCHANGED <<actions_showing, PromptOthers>>

\* The owner of the actions dialog opens or closes it and sets the flag.
DialogChange ==
  /\ actions_showing' = ~actions_showing
  /\ promptLast' = [promptLast EXCEPT !.op = "dialog"]
  /\ UNCHANGED <<prompt, PromptOthers>>

PromptNext == KeyDown \/ DialogChange

SpecPrompt == PromptInit /\ [][PromptNext]_vars

\* ------------------------------------------------------------------ claims

IsResize == last.op \in {"term_resize", "pty_resize"}

\* C1: a resize of the terminal or of the PTY session to zero columns or zero
\* rows is rejected with an error the caller sees, and size() returns after
\* the call what it returned before it.
C1_DegenerateResizeRejected ==
  (IsResize /\ (last.cols = 0 \/ last.rows = 0))
    => (last.result = "Err" /\ ~last.changed)

C4_PtyFollowsTerminalResize ==
  (last.op = "term_resize" /\ last.cols > 0 /\ last.rows > 0)
    => PtyManager_size(pty) = TerminalHandle_size(term)

\* C7: in every state reached through actions and resizes the cursor row is
\* in [0, rows-1] and the cursor column in [0, cols-1].  The handle keeps no
\* cursor of its own; the claim needs the grid to have a cell to hold one.
C7_CursorInsideGrid ==
  \E row \in 0..(TerminalHandle_size(term)[2] - 1),
     col \in 0..(TerminalHandle_size(term)[1] - 1) : TRUE

\* C8: in every state reached through actions and resizes the scroll region
\* satisfies 0 <= top <= bottom < rows.  The handle keeps no scroll region of
\* its own; the claim needs some region to fit the rows the grid has.
C8_ScrollRegionInsideGrid ==
  \E top \in 0..(TerminalHandle_size(term)[2] - 1),
     bottom \in 0..(TerminalHandle_size(term)[2] - 1) : top <= bottom

C10_LineFeedPushesScrollback ==
  ( /\ last.op = "process"
    /\ last.data = <<"LF">>
    /\ TerminalHandle_size(feed.base)[2] = 1
    /\ feed.base.scrollback_lines > 0 )
    => last.changed

\* C11: resize idempotence.  A terminal resize that repeats the resize before
\* it, with the same dimensions, leaves the terminal exactly as the first
\* call left it: same size, same retained state, no scrollback growth.
C11_ResizeIdempotent ==
  (last.op = "term_resize" /\ last.repeat) => last.same

\* The same resize has been made twice in a row, to a size other than the
\* one the terminal was constructed with.
C11_Witness ==
  /\ last.op = "term_resize"
  /\ last.repeat
  /\ last.cols = MaxDim
  /\ last.rows = 1

\* C15: printable text followed by CR LF, fed into an empty grid of two or
\* more rows and columns, leaves the text in row 0 and the cursor at (1,0):
\* the terminal is no longer in the state of the empty grid it started in.
C15_TextLineReachesGrid ==
  ( /\ feed.fed = TextLine
    /\ TerminalHandle_size(feed.base)[1] >= 2
    /\ TerminalHandle_size(feed.base)[2] >= 2 )
    => term # feed.base

\* C16: a theme change mutates neither the terminal grid nor an existing
\* ThemeAdapter: a clone obtained before the change still returns the
\* background, foreground, cursor and selection colours it was obtained
\* with, and the terminal is what it was.
C16_ThemeChangeLeavesHeldAdapter ==
  /\ bound.held # "none" => adapters[bound.held] = themeLast.obtained.held
  /\ adapters[bound.current] = themeLast.obtained.current
  /\ term = TerminalHandle_default

\* A clone is held and the adapter in use has since been given colours the
\* clone does not have.
C16_Witness ==
  /\ bound.held # "none"
  /\ themeLast.op \in {"new", "with_selection", "light_default"}
  /\ adapters[bound.current] # adapters[bound.held]

\* C17: new(background, foreground, cursor) yields selection_background =
\* cursor and selection_foreground = background; with_selection(b, f) sets
\* exactly the two selection colours to (b, f) and leaves background,
\* foreground and cursor as they were.
C17_SelectionColours ==
  LET a == adapters[bound.current] IN
    /\ themeLast.op = "new" =>
         /\ a.background = themeLast.args[1]
         /\ a.foreground = themeLast.args[2]
         /\ a.cursor = themeLast.args[3]
         /\ a.selection_background = themeLast.args[3]
         /\ a.selection_foreground = themeLast.args[1]
    /\ themeLast.op = "with_selection" =>
         /\ a.selection_background = themeLast.args[1]
         /\ a.selection_foreground = themeLast.args[2]
         /\ a.background = themeLast.before.background
         /\ a.foreground = themeLast.before.foreground
         /\ a.cursor = themeLast.before.cursor

\* with_selection has replaced selection colours that differed from the new
\* ones, on an adapter made by new() with distinct colours.
C17_Witness ==
  /\ themeLast.op = "with_selection"
  /\ themeLast.before.selection_background # themeLast.args[1]
  /\ themeLast.before.selection_foreground # themeLast.args[2]
  /\ themeLast.before.background # themeLast.before.foreground


\* C18: whatever the kit directory holds at the start, ensure_kit_setup leaves
\* an existing config.ts and an existing theme.json as they are: each of the
\* two is written only when nothing is at its path before the call.
C18_UserOwnedFilesKept ==
  setupLast.op = "ensure_kit_setup" =>
    \A rel \in UserOwned :
      LET path == get_kit_path(env) \o rel IN
        /\ Exists(setupLast.before, path) =>
             fs[path] = setupLast.before[path]
        /\ path \in setupLast.writes => ~Exists(setupLast.before, path)

\* A run that met the user's config.ts, kept it, and created theme.json and
\* the SDK next to it.
C18_Witness ==
  /\ setupLast.op = "ensure_kit_setup"
  /\ setupLast.before[KIT \o CONFIG_TS] = "config:user"
  /\ fs[KIT \o CONFIG_TS] = "config:user"
  /\ setupLast.before[KIT \o THEME_JSON] = "absent"
  /\ fs[KIT \o THEME_JSON] = EMBEDDED_THEME_EXAMPLE
  /\ {KIT \o THEME_JSON, KIT \o SDK_FILE} \subseteq setupLast.writes

MigrationDue(f, e) == e.home /\ Exists(f, KENV) /\ ~Exists(f, KIT)

\* C20: migrate_from_kenv returns true only when ~/.kenv exists and ~/.sk/kit
\* does not; in every other case it returns false and leaves the file system
\* as it was; whenever it has moved or removed anything of ~/.kenv it
\* returns true, and then ~/.sk/kit exists; and once a call has returned
\* true, every later call returns false.
C20_MigratesOnce ==
  setupLast.op = "migrate_from_kenv" =>
    /\ setupLast.migrated => MigrationDue(setupLast.before, env)
    /\ ~MigrationDue(setupLast.before, env) =>
         ~setupLast.migrated /\ fs = setupLast.before
    /\ (\E q \in Below(KENV) : fs[q] # setupLast.before[q]) =>
         setupLast.migrated
    /\ setupLast.migrated => Exists(fs, KIT)
    /\ setupLast.earlier => ~setupLast.migrated

\* A call made after a migration that moved the user's script and config.ts:
\* it returns false and changes nothing.
C20_Witness ==
  /\ setupLast.op = "migrate_from_kenv"
  /\ setupLast.earlier
  /\ ~setupLast.migrated
  /\ fs = setupLast.before
  /\ fs[KIT \o <<"main", "scripts", "a.ts">>] = "script:user"
  /\ fs[KIT \o CONFIG_TS] = "config:user"
  /\ fs[KENV] = "symlink"

\* C21: however calls of scan_applications and scan_applications_fresh by
\* several threads interleave, the closure that fills APP_CACHE is run at
\* most once, every scan_applications call returns the one cached list, and
\* a scan_applications_fresh call leaves the cache as it found it.
C21_CacheFilledOnce ==
  /\ appHist.initRuns <= 1
  /\ appHist.returned # {} =>
       appCache.state = "done" /\ appHist.returned = {appCache.value}
  /\ appHist.op = "fresh_return" => appCache = appHist.cacheBefore

\* Both kinds of call have returned, the closure has run, and the fresh scan
\* has found a list that differs from the cached one, which the last
\* scan_applications call still returned.
C21_Witness ==
  /\ appHist.op = "scan_return"
  /\ appHist.initRuns = 1
  /\ appHist.returned = {appCache.value}
  /\ appHist.fresh # <<>>
  /\ appHist.fresh # appCache.value
  /\ scan_all_directories(installed) # appCache.value

\* C22: when the `defaults` command cannot be run, load_theme with a missing,
\* unreadable or unparsable theme file returns the dark default colour
\* scheme.
C22_FailedDetectionIsDark ==
  (/\ loadLast.op = "load_theme"
   /\ loadLast.command.run = "Err"
   /\ ~Theme_from_str(loadLast.file).ok) =>
    loadLast.theme.colors = ColorScheme_dark_default

\* Whether a line is a Message: it is UTF-8 and, blanks around it apart, the
\* JSON text of one message.
IsMessageLine(line) ==
  /\ \A i \in 1..Len(line) : line[i] # "0xFF"
  /\ \E m \in MessageTexts :
       /\ \E i \in 1..Len(line) : line[i] = m
       /\ Cardinality({ i \in 1..Len(line) : line[i] # " " }) = 1

IsCmdK(event) == event.platform /\ key_to_lowercase(event.key) = "k"

\* The filter, selection and current directory are as before the key.
PromptKept ==
  /\ prompt.filter_text = promptLast.before.filter_text
  /\ prompt.selected_index = promptLast.before.selected_index
  /\ prompt.current_path = promptLast.before.current_path

\* C24 as stated, for a prompt with both callbacks set: Cmd+K invokes the
\* show-actions callback when the dialog is hidden and the close-actions
\* callback when it is showing, whatever the prompt's state; while the dialog
\* is showing every other key leaves filter, selection and directory alone.
C24_CmdKAlwaysToggles ==
  (/\ promptLast.op = "key"
   /\ promptLast.before.on_show_actions
   /\ promptLast.before.on_close_actions) =>
    /\ IsCmdK(promptLast.event) =>
         /\ Len(promptLast.calls) > 0
         /\ promptLast.calls[Len(promptLast.calls)].callback =
              IF promptLast.showing THEN "on_close_actions"
              ELSE "on_show_actions"
    /\ (promptLast.showing /\ ~IsCmdK(promptLast.event)) => PromptKept

\* C24, amended: Cmd+K invokes the close-actions callback, if one is set,
\* when the dialog is showing; when it is hidden it invokes the show-actions
\* callback, if one is set, with the selected entry, and does nothing when no
\* entry is selected; it never changes the prompt. While the dialog is
\* showing every other key invokes nothing and leaves the prompt as it was.
C24_CmdKTogglesForSelected ==
  promptLast.op = "key" =>
    LET before == promptLast.before IN
      /\ IsCmdK(promptLast.event) =>
           /\ prompt = before
           /\ promptLast.calls =
                IF promptLast.showing
                THEN IF before.on_close_actions THEN <<CloseCall>> ELSE <<>>
                ELSE IF HasSelected(before) /\ before.on_show_actions
                THEN <<ShowCall(Selected(before))>>
                ELSE <<>>
      /\ (promptLast.showing /\ ~IsCmdK(promptLast.event)) =>
           /\ PromptKept
           /\ prompt = before
           /\ promptLast.calls = <<>>

\* Cmd+K on a filtered list with the dialog hidden: the show-actions callback
\* has been given the selected file.
C24_Witness ==
  /\ promptLast.op = "key"
  /\ IsCmdK(promptLast.event)
  /\ ~promptLast.showing
  /\ prompt.filter_text # <<>>
  /\ prompt.selected_index > 0
  /\ promptLast.calls = <<ShowCall(Selected(prompt))>>
  /\ ~Selected(prompt).is_dir

\* Enter, pressed while the actions dialog is hidden.
IsEnterHidden ==
  /\ promptLast.op = "key"
  /\ promptLast.event.key = "enter"
  /\ ~promptLast.showing

\* C25 as stated: Enter with the actions dialog hidden calls on_submit once
\* with Some(path of the selected entry) and leaves the prompt unchanged.
C25_EnterAlwaysSubmitsSelected ==
  IsEnterHidden =>
    /\ Len(promptLast.calls) = 1
    /\ promptLast.calls[1].callback = "on_submit"
    /\ promptLast.calls[1].some
    /\ HasSelected(promptLast.before)
    /\ promptLast.calls[1].path = Selected(promptLast.before).path
    /\ prompt = promptLast.before

\* C25, amended: Enter with the actions dialog hidden never navigates and
\* leaves the prompt unchanged; with an entry selected it calls on_submit
\* once with Some(that entry's path), for a file and a directory alike; with
\* no entry selected it calls on_submit once with Some(filter_text) when the
\* filter is not empty, and calls nothing when the filter is empty.
C25_EnterSubmitsSelectedOrFilter ==
  IsEnterHidden =>
    LET before == promptLast.before IN
      /\ prompt = before
      /\ promptLast.calls =
           IF HasSelected(before)
           THEN <<SubmitCall(before.id, TRUE, Selected(before).path, <<>>)>>
           ELSE IF before.filter_text # <<>>
           THEN <<SubmitCall(before.id, TRUE, "None", before.filter_text)>>
           ELSE <<>>

\* Enter on a selected directory: its path was submitted and the prompt is
\* still in the directory it was in.
C25_Witness ==
  /\ IsEnterHidden
  /\ HasSelected(promptLast.before)
  /\ Selected(promptLast.before).is_dir
  /\ Len(promptLast.calls) = 1
  /\ promptLast.calls[1].callback = "on_submit"
  /\ promptLast.calls[1].path = "/Docs/Empty"
  /\ prompt.current_path = "/Docs"
====
